---- MODULE Spec2Model ----
(***************************************************************************)
(* Binary tree node (BinaryTreeNode) and the ordered-insertion tree        *)
(* container of elementary-js-structures.                                  *)
(*                                                                         *)
(* The heap is a sequence of node records; a node reference is its index   *)
(* in the heap and NULL stands for the JavaScript null.  Nodes are only    *)
(* ever allocated by `new BinaryTreeNode(data)`, which appends a record.   *)
(***************************************************************************)
EXTENDS Integers, Sequences, FiniteSets

VARIABLES nodes, ret, treeRoot, inserted

vars == <<nodes, ret, treeRoot, inserted>>

\* ---------------------------------------------------------------- bounds
MaxNodes == 3
MaxItems == 5

\* payloads used by the node-level specification
Data == {"a", "b"}
\* payloads used by the tree-container specification (ordered by <)
Items == {1, 3, 4, 5, 8}

NULL == 0

NodeIds(h) == 1..Len(h)

\* ------------------------------------------------------- BinaryTreeNode
\* constructor(data)
NewNode(data) ==
    [data |-> data, father |-> NULL, left |-> NULL, right |-> NULL, level |-> 0]

\* level()
level(h, self) == h[self].level

\* isRoot()
isRoot(h, self) == h[self].father = NULL

\* isLeaf()
isLeaf(h, self) == h[self].left = NULL /\ h[self].right = NULL

\* isRight(): this.father?.right === this
isRight(h, self) ==
    IF h[self].father = NULL THEN FALSE ELSE h[h[self].father].right = self

\* isLeft(): this.father?.left === this
isLeft(h, self) ==
    IF h[self].father = NULL THEN FALSE ELSE h[h[self].father].left = self

brotherNoSideTest(h, self) ==
    IF h[self].father = NULL THEN NULL ELSE h[h[self].father].left

\* get brother
brother(h, self) ==
    IF h[self].father = NULL THEN NULL
    ELSE IF isLeft(h, self) THEN h[h[self].father].right
    ELSE h[h[self].father].left

\* the while loop of `get root`; steps counts the executions of its body
RECURSIVE rootLoop(_, _, _)
rootLoop(h, node, steps) ==
    IF h[node].father # NULL
    THEN rootLoop(h, h[node].father, steps + 1)
    ELSE [val |-> node, steps |-> steps]

rootStopsAtFather(h, self) ==
    IF h[self].father = NULL THEN [val |-> self, steps |-> 0]
    ELSE [val |-> h[self].father, steps |-> 1]

\* get root
root(h, self) == rootLoop(h, self, 0)

\* the while loop of ancestor(tree); steps counts the executions of its body
RECURSIVE ancestorLoop(_, _, _, _)
ancestorLoop(h, node, tree, steps) ==
    IF node # NULL
    THEN IF node = tree
         THEN [val |-> TRUE, steps |-> steps + 1]
         ELSE ancestorLoop(h, h[node].father, tree, steps + 1)
    ELSE [val |-> FALSE, steps |-> steps]

ancestorFromSelf(h, self, tree) == ancestorLoop(h, self, tree, 0)

\* ancestor(tree)
ancestor(h, self, tree) == ancestorLoop(h, h[self].father, tree, 0)

pushSonsUnchecked(h, node, st) ==
    IF node = NULL THEN st ELSE Append(Append(st, h[node].left), h[node].right)

\* `if (node?.left) visited.push(node.left)`, then the same for right.
\* The stack is a sequence whose top is its last element; pushed is the
\* log of every reference handed to visited.push.
pushSons(h, node, st) ==
    LET l == IF node = NULL THEN NULL ELSE h[node].left
        r == IF node = NULL THEN NULL ELSE h[node].right
        s1 == IF l # NULL THEN Append(st, l) ELSE st
    IN  IF r # NULL THEN Append(s1, r) ELSE s1

\* the while loop of descendant(tree)
RECURSIVE descendantLoop(_, _, _, _, _)
descendantLoop(h, visited, tree, pops, pushed) ==
    IF visited # <<>>
    THEN LET node == visited[Len(visited)]
             rest == SubSeq(visited, 1, Len(visited) - 1)
         IN  IF node = tree
             THEN [val |-> TRUE, pops |-> pops + 1, pushed |-> pushed]
             ELSE descendantLoop(h, pushSons(h, node, rest), tree, pops + 1,
                                 pushSons(h, node, pushed))
    ELSE [val |-> FALSE, pops |-> pops, pushed |-> pushed]

\* descendant(tree): the two seeds are pushed unconditionally
descendant(h, self, tree) ==
    LET seeds == <<h[self].left, h[self].right>>
    IN  descendantLoop(h, seeds, tree, 0, seeds)

\* the node a successful insertLeft / insertRight of self creates
Son(h, self, data) ==
    [NewNode(data) EXCEPT !.father = self, !.level = level(h, self) + 1]

insertLeftOverwrites(h, self, data) ==
    [heap |-> Append([h EXCEPT ![self].left = Len(h) + 1], Son(h, self, data)),
     threw |-> FALSE, val |-> self]

insertLeftIntoRight(h, self, data) ==
    IF h[self].left # NULL
    THEN [heap |-> h, threw |-> TRUE, val |-> NULL]
    ELSE [heap |-> Append([h EXCEPT ![self].right = Len(h) + 1], Son(h, self, data)),
          threw |-> FALSE, val |-> self]

insertLeftReturnsSon(h, self, data) ==
    IF h[self].left # NULL
    THEN [heap |-> h, threw |-> TRUE, val |-> NULL]
    ELSE [heap |-> Append([h EXCEPT ![self].left = Len(h) + 1], Son(h, self, data)),
          threw |-> FALSE, val |-> Len(h) + 1]

\* insertLeft(data): heap after the call, whether InvalidInsertion was
\* thrown, and the returned reference (none when it threw)
insertLeft(h, self, data) ==
    IF h[self].left # NULL
    THEN [heap |-> h, threw |-> TRUE, val |-> NULL]
    ELSE [heap |-> Append([h EXCEPT ![self].left = Len(h) + 1], Son(h, self, data)),
          threw |-> FALSE, val |-> self]

insertRightLevelOfSelf(h, self, data) ==
    IF h[self].right # NULL
    THEN [heap |-> h, threw |-> TRUE, val |-> NULL]
    ELSE [heap |-> Append([h EXCEPT ![self].right = Len(h) + 1],
                          [Son(h, self, data) EXCEPT !.level = level(h, self)]),
          threw |-> FALSE, val |-> self]

insertRightOverwrites(h, self, data) ==
    [heap |-> Append([h EXCEPT ![self].right = Len(h) + 1], Son(h, self, data)),
     threw |-> FALSE, val |-> self]

\* insertRight(data)
insertRight(h, self, data) ==
    IF h[self].right # NULL
    THEN [heap |-> h, threw |-> TRUE, val |-> NULL]
    ELSE [heap |-> Append([h EXCEPT ![self].right = Len(h) + 1], Son(h, self, data)),
          threw |-> FALSE, val |-> self]

\* ------------------------------------------------- node-level operations
NoCall == [op |-> "none"]

Init ==
    /\ \E d \in Data : nodes = <<NewNode(d)>>
    /\ ret = NoCall
    /\ treeRoot = NULL
    /\ inserted = <<>>

\* a call of insertLeft; a successful one allocates, so it needs room
InsertLeft(self, data) ==
    LET r == insertLeft(nodes, self, data) IN
    /\ Len(r.heap) <= MaxNodes
    /\ nodes' = r.heap
    /\ ret' = [op |-> "insertLeft", self |-> self, arg |-> data,
               threw |-> r.threw, val |-> r.val]
    /\ UNCHANGED <<treeRoot, inserted>>

InsertRight(self, data) ==
    LET r == insertRight(nodes, self, data) IN
    /\ Len(r.heap) <= MaxNodes
    /\ nodes' = r.heap
    /\ ret' = [op |-> "insertRight", self |-> self, arg |-> data,
               threw |-> r.threw, val |-> r.val]
    /\ UNCHANGED <<treeRoot, inserted>>

Ancestor(self, tree) ==
    LET r == ancestor(nodes, self, tree) IN
    /\ ret' = [op |-> "ancestor", self |-> self, arg |-> tree,
               val |-> r.val, steps |-> r.steps]
    /\ UNCHANGED <<nodes, treeRoot, inserted>>

Descendant(self, tree) ==
    LET r == descendant(nodes, self, tree) IN
    /\ ret' = [op |-> "descendant", self |-> self, arg |-> tree,
               val |-> r.val, pops |-> r.pops, pushed |-> r.pushed]
    /\ UNCHANGED <<nodes, treeRoot, inserted>>

Root(self) ==
    LET r == root(nodes, self) IN
    /\ ret' = [op |-> "root", self |-> self, val |-> r.val, steps |-> r.steps]
    /\ UNCHANGED <<nodes, treeRoot, inserted>>

Brother(self) ==
    /\ ret' = [op |-> "brother", self |-> self, val |-> brother(nodes, self)]
    /\ UNCHANGED <<nodes, treeRoot, inserted>>

Next ==
    \/ \E self \in NodeIds(nodes), d \in Data : InsertLeft(self, d)
    \/ \E self \in NodeIds(nodes), d \in Data : InsertRight(self, d)
    \/ \E self \in NodeIds(nodes), tree \in NodeIds(nodes) \cup {NULL} : Ancestor(self, tree)
    \/ \E self \in NodeIds(nodes), tree \in NodeIds(nodes) \cup {NULL} : Descendant(self, tree)
    \/ \E self \in NodeIds(nodes) : Root(self)
    \/ \E self \in NodeIds(nodes) : Brother(self)

Spec == Init /\ [][Next]_vars

\* ------------------------------------------------------------ vocabulary
\* number of father links between n and the fatherless node above it
RECURSIVE FatherLinks(_, _)
FatherLinks(h, n) ==
    IF h[n].father = NULL THEN 0 ELSE 1 + FatherLinks(h, h[n].father)

\* the nodes met on the father chain of n, n excluded
RECURSIVE Above(_, _)
Above(h, n) ==
    IF h[n].father = NULL THEN {} ELSE {h[n].father} \cup Above(h, h[n].father)

\* the nodes reachable from n by one or more left/right links
Below(h, n) == {m \in NodeIds(h) : n \in Above(h, m)}

Fatherless(h) == {n \in NodeIds(h) : h[n].father = NULL}

\* the content of the slot of n's father that n does not occupy
OppositeSlot(h, n) ==
    IF h[h[n].father].left = n THEN h[h[n].father].right ELSE h[h[n].father].left

IsInsert(r) == r.op \in {"insertLeft", "insertRight"}

Slot(h, n, op) == IF op = "insertLeft" THEN h[n].left ELSE h[n].right

Occurrences(s, x) == Cardinality({i \in 1..Len(s) : s[i] = x})

\* ------------------------------------------------------------------- C1
\* C1: after any sequence of successful and failed insertLeft/insertRight
\* calls, a node without father has level 0, every other node has the level
\* of its father plus one, and level() is the number of father links up to
\* the root.
C1_LevelMatchesFatherChain ==
    \A n \in NodeIds(nodes) :
        /\ nodes[n].father = NULL => level(nodes, n) = 0
        /\ nodes[n].father # NULL =>
              level(nodes, n) = level(nodes, nodes[n].father) + 1
        /\ level(nodes, n) = FatherLinks(nodes, n)

C1_Witness ==
    /\ IsInsert(ret) /\ ret.threw
    /\ \E n \in NodeIds(nodes) : level(nodes, n) = 2 /\ isRight(nodes, n)

\* ------------------------------------------------------------------- C2
\* C2: insertLeft on a node whose left slot is filled (insertRight on a
\* filled right slot) throws InvalidInsertion and changes nothing: no node
\* is created and every node keeps data, father, left, right and level.
C2_FilledSlotThrowsAndKeepsTree ==
    [][(IsInsert(ret') /\ Slot(nodes, ret'.self, ret'.op) # NULL)
          => (ret'.threw /\ ret'.val = NULL /\ nodes' = nodes)]_vars

C2_Witness ==
    /\ IsInsert(ret) /\ ret.threw
    /\ Slot(nodes, ret.self, ret.op) # NULL
    /\ Len(nodes) = 2

\* ------------------------------------------------------------------- C3
\* C3: for all nodes a and b of the tree, a.ancestor(b) = b.descendant(a),
\* and both are false when a = b.
C3_AncestorIsConverseOfDescendant ==
    \A a \in NodeIds(nodes), b \in NodeIds(nodes) :
        /\ ancestor(nodes, a, b).val = descendant(nodes, b, a).val
        /\ a = b => ~ancestor(nodes, a, b).val /\ ~descendant(nodes, b, a).val

C3_Witness ==
    /\ ret.op = "ancestor" /\ ret.val
    /\ level(nodes, ret.self) = 2 /\ level(nodes, ret.arg) = 0
    /\ descendant(nodes, ret.arg, ret.self).val

\* ------------------------------------------------------------------- C4
\* C4: descendant(candidate) never pushes an empty reference (seeds
\* included), returns true iff candidate is reachable from self by one or
\* more left/right links, and returns false for an empty candidate.
C4_DescendantPushesNoEmptyReference ==
    ret.op = "descendant" =>
        /\ Occurrences(ret.pushed, NULL) = 0
        /\ ret.val = (ret.arg \in Below(nodes, ret.self))
        /\ ret.arg = NULL => ~ret.val

\* ------------------------------------------------------------------- C5
\* C5: insertLeft(data) on an empty left slot (insertRight on an empty
\* right slot) adds exactly one node: it holds data, is a leaf, has the
\* receiver as father and the receiver's level plus one, sits in the
\* receiver's left (right) slot; the call returns the receiver.
C5_InsertAddsOneLeaf ==
    [][(IsInsert(ret') /\ Slot(nodes, ret'.self, ret'.op) = NULL) =>
          LET new == Len(nodes) + 1 IN
          /\ ~ret'.threw
          /\ ret'.val = ret'.self
          /\ Len(nodes') = new
          /\ nodes'[new].data = ret'.arg
          /\ isLeaf(nodes', new)
          /\ nodes'[new].father = ret'.self
          /\ level(nodes', new) = level(nodes, ret'.self) + 1
          /\ Slot(nodes', ret'.self, ret'.op) = new]_vars

C5_Witness ==
    /\ ret.op = "insertLeft" /\ ~ret.threw
    /\ ret.self # 1
    /\ nodes[nodes[ret.self].left].data # nodes[ret.self].data

\* ------------------------------------------------------------------- C6
\* C6: topology is append-only: a filled slot holds the same node in every
\* later state, every node keeps its data, father and level, and a
\* successful insert changes only the targeted empty slot of the receiver.
C6_AppendOnly ==
    [][/\ Len(nodes') >= Len(nodes)
       /\ \A n \in NodeIds(nodes) :
            /\ nodes'[n].data = nodes[n].data
            /\ nodes'[n].father = nodes[n].father
            /\ nodes'[n].level = nodes[n].level
            /\ nodes[n].left # NULL => nodes'[n].left = nodes[n].left
            /\ nodes[n].right # NULL => nodes'[n].right = nodes[n].right
            /\ nodes'[n] # nodes[n] =>
                  /\ IsInsert(ret') /\ ~ret'.threw /\ n = ret'.self
                  /\ Slot(nodes, n, ret'.op) = NULL
                  /\ IF ret'.op = "insertLeft"
                     THEN nodes'[n].right = nodes[n].right
                     ELSE nodes'[n].left = nodes[n].left]_vars

C6_Witness ==
    /\ ret.op = "insertRight" /\ ~ret.threw
    /\ nodes[ret.self].left # NULL /\ nodes[ret.self].left < nodes[ret.self].right
    /\ Len(nodes) = 3

\* ------------------------------------------------------------------- C7
\* C7: exactly one node has no father, isRoot() holds for it only, every
\* other node is the left or the right son of its father and never both,
\* and the root property of every node is that fatherless node.
C7_SingleRoot ==
    /\ Cardinality(Fatherless(nodes)) = 1
    /\ \A n \in NodeIds(nodes) :
        /\ isRoot(nodes, n) = (n \in Fatherless(nodes))
        /\ ~isRoot(nodes, n) => (isLeft(nodes, n) # isRight(nodes, n))
        /\ root(nodes, n).val \in Fatherless(nodes)

C7_Witness ==
    /\ ret.op = "root" /\ level(nodes, ret.self) = 2
    /\ isRoot(nodes, ret.val)

\* ------------------------------------------------------------------- C8
\* C8: n.brother is none when n is the root or the opposite slot of its
\* father is empty, otherwise the node in that slot; it is never n, and
\* n.brother.brother = n whenever n.brother exists.
C8_Brother ==
    \A n \in NodeIds(nodes) :
        LET b == brother(nodes, n) IN
        /\ b = (IF nodes[n].father = NULL THEN NULL ELSE OppositeSlot(nodes, n))
        /\ b # n
        /\ b # NULL => brother(nodes, b) = n

C8_Witness ==
    /\ ret.op = "brother" /\ ret.val # NULL
    /\ isLeft(nodes, ret.self) /\ isRight(nodes, ret.val)

\* ------------------------------------------------------------------ C10
\* the part of C10 about a finished descendant call r: every node below the
\* receiver is pushed at most once, no other node is pushed, and the loop
\* ends within (nodes below the receiver + 2) pops
DescendantBounded(r) ==
    /\ \A n \in NodeIds(nodes) :
          Occurrences(r.pushed, n) <= (IF n \in Below(nodes, r.self) THEN 1 ELSE 0)
    /\ r.pops <= Cardinality(Below(nodes, r.self)) + 2

\* C10 as stated: descendant ends within (nodes below the receiver + 2)
\* pops, pushing every node at most once, and the father-chain walks of
\* ancestor and root end after exactly level() steps.
C10_WalksTakeExactlyLevelSteps ==
    /\ ret.op = "descendant" => DescendantBounded(ret)
    /\ ret.op = "root" => ret.steps = level(nodes, ret.self)
    /\ ret.op = "ancestor" => ret.steps = level(nodes, ret.self)

\* C10 amended: as above, but the walk of ancestor ends after at most
\* level() steps, and after exactly level() steps when it returns false.
C10_WalksTakeAtMostLevelSteps ==
    /\ ret.op = "descendant" => DescendantBounded(ret)
    /\ ret.op = "root" => ret.steps = level(nodes, ret.self)
    /\ ret.op = "ancestor" =>
          /\ ret.steps <= level(nodes, ret.self)
          /\ ~ret.val => ret.steps = level(nodes, ret.self)

C10_Witness ==
    /\ ret.op = "ancestor" /\ ret.val
    /\ ret.steps < level(nodes, ret.self)
    /\ \E n \in NodeIds(nodes) :
          descendant(nodes, n, ret.self).pops = Cardinality(Below(nodes, n)) + 2

\* ------------------------------------------------------- tree container
\* the comparator of the scenario: a < b routes left
comparator(a, b) == a < b

\* descent of insert for one item below a non-empty node: comparator true
\* takes the left slot, false the right slot; the first empty slot reached
\* receives the new leaf
RECURSIVE descend(_, _, _)
descend(h, node, item) ==
    IF comparator(item, h[node].data)
    THEN IF h[node].left = NULL
         THEN insertLeft(h, node, item).heap
         ELSE descend(h, h[node].left, item)
    ELSE IF h[node].right = NULL
         THEN insertRight(h, node, item).heap
         ELSE descend(h, h[node].right, item)

\* insert of one item into the tree t = [heap, root]: the first item
\* becomes the root of an empty tree
insertOne(t, item) ==
    IF t.root = NULL
    THEN [heap |-> Append(t.heap, NewNode(item)), root |-> Len(t.heap) + 1]
    ELSE [heap |-> descend(t.heap, t.root, item), root |-> t.root]

\* insert(...items): the items one after the other, in call order
RECURSIVE insert(_, _)
insert(t, items) ==
    IF items = <<>> THEN t ELSE insert(insertOne(t, Head(items)), Tail(items))

RECURSIVE preorder(_, _)
preorder(h, n) ==
    IF n = NULL THEN <<>>
    ELSE <<h[n].data>> \o preorder(h, h[n].left) \o preorder(h, h[n].right)

RECURSIVE inorder(_, _)
inorder(h, n) ==
    IF n = NULL THEN <<>>
    ELSE inorder(h, h[n].left) \o <<h[n].data>> \o inorder(h, h[n].right)

RECURSIVE postorder(_, _)
postorder(h, n) ==
    IF n = NULL THEN <<>>
    ELSE postorder(h, h[n].left) \o postorder(h, h[n].right) \o <<h[n].data>>

Scenario == <<5, 3, 8, 1, 4>>

\* the argument lists of one insert call
Calls ==
    {<<i>> : i \in Items} \cup {<<i, j>> : i \in Items, j \in Items} \cup {Scenario}

TreeInit ==
    /\ nodes = <<>>
    /\ ret = NoCall
    /\ treeRoot = NULL
    /\ inserted = <<>>

TreeInsert(items) ==
    LET r == insert([heap |-> nodes, root |-> treeRoot], items) IN
    /\ Len(nodes) + Len(items) <= MaxItems
    /\ nodes' = r.heap
    /\ treeRoot' = r.root
    /\ inserted' = inserted \o items
    /\ ret' = [op |-> "insert", arg |-> items]

TreePreorder ==
    /\ ret' = [op |-> "preorder", val |-> preorder(nodes, treeRoot)]
    /\ UNCHANGED <<nodes, treeRoot, inserted>>

TreeInorder ==
    /\ ret' = [op |-> "inorder", val |-> inorder(nodes, treeRoot)]
    /\ UNCHANGED <<nodes, treeRoot, inserted>>

TreePostorder ==
    /\ ret' = [op |-> "postorder", val |-> postorder(nodes, treeRoot)]
    /\ UNCHANGED <<nodes, treeRoot, inserted>>

TreeNext ==
    \/ \E items \in Calls : TreeInsert(items)
    \/ TreePreorder
    \/ TreeInorder
    \/ TreePostorder

TreeSpec == TreeInit /\ [][TreeNext]_vars

\* ------------------------------------------------------------------- C9
\* the left and the right subtree of a node, as sets of nodes
LeftOf(h, a) ==
    IF h[a].left = NULL THEN {} ELSE {h[a].left} \cup Below(h, h[a].left)

RightOf(h, a) ==
    IF h[a].right = NULL THEN {} ELSE {h[a].right} \cup Below(h, h[a].right)

====
